---------------------------- MODULE Spec2Model ----------------------------
(***************************************************************************)
(* JsonFilter (src/src/script.ts): a page that fetches JSON documents,     *)
(* folds the active "filter group" of user-written steps over them and     *)
(* shows the result in a JSON viewer.  The pipeline definition is kept in  *)
(* localStorage under the key "jfs".                                       *)
(*                                                                         *)
(* script.ts holds two variants of the program: the multi-source one       *)
(* (lines 1-488) and the older single-source one (lines 489-842).          *)
(***************************************************************************)
EXTENDS Integers, Sequences, FiniteSets, TLC

(***************************************************************************)
(* Bounds of the model.                                                    *)
(***************************************************************************)
MaxSources == 2
MaxFetches == 2
MaxGroups == 2
MaxFilters == 2
MaxTimers == 1
MaxEditGroups == 1
MaxSteps == 2

(***************************************************************************)
(* JSON / JavaScript values, tagged by their kind.  An object is the       *)
(* sequence of its [k, val] properties in insertion order.                 *)
(***************************************************************************)
Undefined == [t |-> "undefined"]
Null == [t |-> "null"]
NaN == [t |-> "nan"]
Num(n) == [t |-> "number", n |-> n]
Bool(b) == [t |-> "boolean", b |-> b]
Str(s) == [t |-> "string", s |-> s]
Arr(items) == [t |-> "array", items |-> items]
Obj(props) == [t |-> "object", props |-> props]

IsArray(d) == d.t = "array"

\* JavaScript truthiness (the `!data` tests of process).
Truthy(d) ==
    CASE d.t \in {"undefined", "null", "nan"} -> FALSE
      [] d.t = "number" -> d.n # 0
      [] d.t = "boolean" -> d.b
      [] d.t = "string" -> d.s # ""
      [] OTHER -> TRUE

\* typeof d === "object"
TypeofObject(d) == d.t \in {"array", "object", "null"}

\* d.name for a property name: only objects of the modelled documents carry
\* named properties.
Prop(d, name) ==
    IF d.t = "object" /\ \E i \in 1..Len(d.props) : d.props[i].k = name
    THEN d.props[CHOOSE i \in 1..Len(d.props) :
                    /\ d.props[i].k = name
                    /\ \A j \in 1..(i - 1) : d.props[j].k # name].val
    ELSE Undefined

\* An indexing that gives null where there is no such property.
GetIndexOrNull(d, key) ==
    CASE d.t = "array" /\ key.t = "number" ->
            IF key.n >= 0 /\ key.n < Len(d.items) THEN d.items[key.n + 1] ELSE Null
      [] d.t = "object" /\ key.t = "string" ->
            IF Prop(d, key.s) = Undefined THEN Null ELSE Prop(d, key.s)
      [] OTHER -> Null

\* data[key]: a number indexes an array, a string names a property of an
\* object; every other key of the modelled values names no property.
GetIndex(d, key) ==
    CASE d.t = "array" /\ key.t = "number" ->
            IF key.n >= 0 /\ key.n < Len(d.items) THEN d.items[key.n + 1] ELSE Undefined
      [] d.t = "object" /\ key.t = "string" -> Prop(d, key.s)
      [] OTHER -> Undefined

(***************************************************************************)
(* Source text.  A text is a sequence of tokens; " " and "\n" are white    *)
(* space, "{" and "}" are the only tokens that hold a brace, every other   *)
(* token is one statement.                                                 *)
(***************************************************************************)
WhiteSpace == {" ", "\n"}

Statements ==
    {"return e;", "return e.x>1;", "return e.x*10;", "return 'a';", "return 0;",
     "return idx<1;", "return [e,e];", "throw new Error('x');", "undefined"}

\* A statement that is no JavaScript.
BadStatement == "return (;"

RECURSIVE TrimStart(_)
TrimStart(text) ==
    IF text # <<>> /\ Head(text) \in WhiteSpace THEN TrimStart(Tail(text)) ELSE text

RECURSIVE TrimEnd(_)
TrimEnd(text) ==
    IF text # <<>> /\ text[Len(text)] \in WhiteSpace
    THEN TrimEnd(SubSeq(text, 1, Len(text) - 1))
    ELSE text

\* String.prototype.trim
Trim(text) == TrimEnd(TrimStart(text))

\* text.indexOf(tok), 0-based, -1 when absent
IndexOf(text, tok) ==
    IF \E i \in 1..Len(text) : text[i] = tok
    THEN (CHOOSE i \in 1..Len(text) :
             /\ text[i] = tok
             /\ \A j \in 1..(i - 1) : text[j] # tok) - 1
    ELSE -1

\* text.lastIndexOf(tok), 0-based, -1 when absent
LastIndexOf(text, tok) ==
    IF \E i \in 1..Len(text) : text[i] = tok
    THEN (CHOOSE i \in 1..Len(text) :
             /\ text[i] = tok
             /\ \A j \in (i + 1)..Len(text) : text[j] # tok) - 1
    ELSE -1

\* text.slice(from, to) for 0 <= from
Slice(text, from, to) == SubSeq(text, from + 1, to)

\* The statements of a body, white space dropped.
Code(text) == SelectSeq(text, LAMBDA tok : tok \notin WhiteSpace)

\* A compiler that accepts every text.
CompilesAnything(text) == TRUE

\* Whether `new Function(["e","idx","list"], text)` accepts the text.
Compiles(text) == Len(Code(text)) = 0 \/ (Len(Code(text)) = 1 /\ Code(text)[1] \in Statements)

\* new Function(["e", "idx", "list"], text): the function object made from
\* a text that compiles; it is known by the body it was compiled from.
NewFunction(text) == [body |-> text]

\* Function.prototype.toString of a function made by new Function
FunctionToString(func) ==
    <<"function anonymous(e,idx,list", "\n", ") ", "{", "\n">> \o func.body \o <<"\n", "}">>

\* The text between the braces as it stands, not trimmed.
getFunctionContentUntrimmed(func) ==
    LET text == FunctionToString(func)
    IN  Slice(text, IndexOf(text, "{") + 1, LastIndexOf(text, "}"))

getFunctionContent(func) ==
    LET text == FunctionToString(func)
    IN  Trim(Slice(text, IndexOf(text, "{") + 1, LastIndexOf(text, "}")))

(***************************************************************************)
(* Calling a compiled step function.                                       *)
(***************************************************************************)
Ret(v) == [thrown |-> FALSE, val |-> v]
Thrown == [thrown |-> TRUE, val |-> Undefined]

Nullish(v) == v.t \in {"undefined", "null"}

\* v > 1 for the values a property x of the modelled documents has
Gt1(v) == v.t = "number" /\ v.n > 1

\* v * 10
Times10(v) == IF v.t = "number" THEN Num(v.n * 10) ELSE NaN

\* v < 1 for an index argument (a number, or undefined when not passed)
Lt1(v) == v.t = "number" /\ v.n < 1

Eval(stmt, e, idx, list) ==
    CASE stmt = "return e;" -> Ret(e)
      [] stmt = "return e.x>1;" -> IF Nullish(e) THEN Thrown ELSE Ret(Bool(Gt1(Prop(e, "x"))))
      [] stmt = "return e.x*10;" -> IF Nullish(e) THEN Thrown ELSE Ret(Times10(Prop(e, "x")))
      [] stmt = "return 'a';" -> Ret(Str("a"))
      [] stmt = "return 0;" -> Ret(Num(0))
      [] stmt = "return idx<1;" -> Ret(Bool(Lt1(idx)))
      [] stmt = "return [e,e];" -> Ret(Arr(<<e, e>>))
      [] stmt = "throw new Error('x');" -> Thrown
      [] stmt = "undefined" -> Ret(Undefined)
      [] OTHER -> Ret(Undefined)

\* func(e, idx, list)
Call(func, e, idx, list) ==
    LET code == Code(func.body)
    IN  IF code = <<>> THEN Ret(Undefined) ELSE Eval(code[1], e, idx, list)


(***************************************************************************)
(* Array.prototype.filter / map / flatMap with a step function: the        *)
(* function is called with (element, index, array); an exception of any    *)
(* call ends the whole operation.                                          *)
(***************************************************************************)
CallAll(items, func) ==
    [i \in 1..Len(items) |-> Call(func, items[i], Num(i - 1), Arr(items))]

AnyThrown(results) == \E i \in 1..Len(results) : results[i].thrown

RECURSIVE Kept(_, _, _)
Kept(items, results, i) ==
    IF i > Len(items) THEN <<>>
    ELSE (IF Truthy(results[i].val) THEN <<items[i]>> ELSE <<>>) \o Kept(items, results, i + 1)

RECURSIVE Flattened(_, _)
Flattened(results, i) ==
    IF i > Len(results) THEN <<>>
    ELSE (IF IsArray(results[i].val) THEN results[i].val.items ELSE <<results[i].val>>)
            \o Flattened(results, i + 1)

\* A filter that keeps every element once the callback has run.
ArrayFilterKeepsAll(items, func) ==
    LET results == CallAll(items, func)
    IN  IF AnyThrown(results) THEN Thrown ELSE Ret(Arr(items))

ArrayFilter(items, func) ==
    LET results == CallAll(items, func)
    IN  IF AnyThrown(results) THEN Thrown ELSE Ret(Arr(Kept(items, results, 1)))

\* A map that calls the function and keeps the elements as they are.
ArrayMapKeepsItems(items, func) ==
    LET results == CallAll(items, func)
    IN  IF AnyThrown(results) THEN Thrown ELSE Ret(Arr(items))

ArrayMap(items, func) ==
    LET results == CallAll(items, func)
    IN  IF AnyThrown(results) THEN Thrown
        ELSE Ret(Arr([i \in 1..Len(results) |-> results[i].val]))

ArrayFlatMap(items, func) ==
    LET results == CallAll(items, func)
    IN  IF AnyThrown(results) THEN Thrown ELSE Ret(Arr(Flattened(results, 1)))

(***************************************************************************)
(* App.process of the multi-source variant (script.ts 291-322).  The fold  *)
(* ends "set" (editor.set(data) was reached), "abort" (the return of the   *)
(* select case) or "throw" (a step function threw).  `ran` counts the      *)
(* steps the loop went through before it ended.                            *)
(***************************************************************************)
\* Array.prototype.at
At(seq, i) ==
    IF i >= 0 /\ i < Len(seq) THEN <<seq[i + 1]>>
    ELSE IF i < 0 /\ Len(seq) + i >= 0 THEN <<seq[Len(seq) + i + 1]>>
    ELSE <<>>

\* A guard that lets every value through to the indexing.
SelectNeverAborts(data) == FALSE

\* The guard of the select case: !data || typeof data !== "object"
SelectAborts(data) == ~Truthy(data) \/ ~TypeofObject(data)

\* One pass of the switch: [status, data] with status "next" when the loop
\* goes on.
Step(filter, data) ==
    CASE filter.type = "filter" ->
            IF ~IsArray(data) THEN [status |-> "next", data |-> data]
            ELSE LET r == ArrayFilter(data.items, filter.func)
                 IN  IF r.thrown THEN [status |-> "throw", data |-> data]
                     ELSE [status |-> "next", data |-> r.val]
      [] filter.type = "flatmap" ->
            IF ~IsArray(data) THEN [status |-> "next", data |-> data]
            ELSE LET r == ArrayFlatMap(data.items, filter.func)
                 IN  IF r.thrown THEN [status |-> "throw", data |-> data]
                     ELSE [status |-> "next", data |-> r.val]
      [] filter.type = "select" ->
            IF SelectAborts(data) THEN [status |-> "abort", data |-> data]
            ELSE LET key == Call(filter.func, Undefined, Undefined, Undefined)
                 IN  IF key.thrown THEN [status |-> "throw", data |-> data]
                     ELSE [status |-> "next", data |-> GetIndex(data, key.val)]
      [] filter.type = "map" ->
            IF ~IsArray(data) THEN [status |-> "next", data |-> data]
            ELSE LET r == ArrayMap(data.items, filter.func)
                 IN  IF r.thrown THEN [status |-> "throw", data |-> data]
                     ELSE [status |-> "next", data |-> r.val]
      [] OTHER -> [status |-> "next", data |-> data]

RECURSIVE Fold(_, _, _)
Fold(data, filters, i) ==
    IF i > Len(filters) THEN [status |-> "set", data |-> data, ran |-> Len(filters)]
    ELSE LET r == Step(filters[i], data)
         IN  IF r.status = "next" THEN Fold(r.data, filters, i + 1)
             ELSE [status |-> r.status, data |-> r.data, ran |-> i - 1]

\* let data = this.content.map(e => e.data)
Seed(cont) == Arr([i \in 1..Len(cont) |-> cont[i].data])

\* A run that always takes the steps of the first group, whichever group
\* is active.
ProcessFirstGroup(cont, groups, active) ==
    LET filters == At(groups, 0)
    IN  IF filters = <<>> THEN [status |-> "set", data |-> Seed(cont), ran |-> 0]
        ELSE Fold(Seed(cont), filters[1], 1)

\* process(): the outcome of the run over the given content and groups.
Process(cont, groups, active) ==
    LET filters == At(groups, active)
    IN  IF filters = <<>> THEN [status |-> "set", data |-> Seed(cont), ran |-> 0]
        ELSE Fold(Seed(cont), filters[1], 1)

(***************************************************************************)
(* The state of the page (class App, script.ts 101-482).                   *)
(***************************************************************************)
VARIABLES
    phase,              \* "boot": constructed, load() not yet run; "loading": load()
                        \* awaits its fetches; "ready": init() has run; "failed":
                        \* load() rejected, init() never runs
    sources,            \* this.sources: sequence of [id, url]
    content,            \* this.content: sequence of [id, data]
    filtersGroups,      \* this.filtersGroups: sequence of sequences of Filter
    activeFilterGroup,  \* this.activeFilterGroup
    shown,              \* index of the group whose steps the "filters" list shows, -1: none
    viewer,             \* the value last given to this.editor.set
    storage,            \* localStorage "jfs": <<>> or <<record>>
    fetches,            \* the fetches in flight
    timers,             \* debounce timers still pending whose editor is gone: the
                        \* index each will call handleFilterChange with
    nextSourceId,       \* crypto.randomUUID(): ids are fresh; sources and
    nextFilterId,       \* filters are numbered apart
    run                 \* history: the last handler and its process() call

vars == <<phase, sources, content, filtersGroups, activeFilterGroup, shown, viewer,
          storage, fetches, timers, nextSourceId, nextFilterId, run>>

Unset == [t |-> "unset"]

Kinds == {"filter", "select", "map", "flatmap"}

Urls == {"u1", "u2"}

\* The document a url serves.
Json(url) ==
    CASE url = "u1" -> Obj(<<[k |-> "x", val |-> Num(2)]>>)
      [] url = "x1" -> Obj(<<[k |-> "x", val |-> Num(1)]>>)
      [] url = "x3" -> Obj(<<[k |-> "x", val |-> Num(3)]>>)
      [] OTHER -> Arr(<<Obj(<<[k |-> "x", val |-> Num(1)]>>), Num(3)>>)

\* The texts a user types into a step's editor.
EditorTexts == {<<"return 0;">>, <<BadStatement>>}

(***************************************************************************)
(* save() (script.ts 390-396): JSON.stringify with sterilizeFunction       *)
(* (88-94): func becomes its body text, editor is left out.                *)
(***************************************************************************)
sterilizeFilter(filter) ==
    [id |-> filter.id, type |-> filter.type, func |-> getFunctionContent(filter.func)]

Record(src, groups, active) ==
    [sources |-> src,
     filters |-> [g \in 1..Len(groups) |->
                    [i \in 1..Len(groups[g]) |-> sterilizeFilter(groups[g][i])]],
     active |-> active]

(***************************************************************************)
(* JSON.parse with desterilizeFunction (95-99): a func text is compiled;   *)
(* a text that does not compile makes JSON.parse throw.                    *)
(***************************************************************************)
ParseThrows(rec) ==
    \E g \in 1..Len(rec.filters) : \E i \in 1..Len(rec.filters[g]) :
        ~Compiles(rec.filters[g][i].func)

desterilizeFilter(stored) ==
    [id |-> stored.id, type |-> stored.type, func |-> NewFunction(stored.func), editor |-> <<>>]

ParsedGroups(rec) ==
    [g \in 1..Len(rec.filters) |->
        [i \in 1..Len(rec.filters[g]) |-> desterilizeFilter(rec.filters[g][i])]]

(***************************************************************************)
(* updateDisplay() (205-276): no group at the active index: nothing.       *)
(* Otherwise the list shows the active group, and every step of it gets a  *)
(* new editor holding getFunctionContent(func) with a debounced change     *)
(* handler that captured the step's index.  The timer of the editor it     *)
(* replaces is not cleared.                                                *)
(***************************************************************************)
NewEditor(func, idx) == <<[text |-> getFunctionContent(func), idx |-> idx, armed |-> FALSE]>>

\* The indices captured by the armed timers of the editors of `filters`.
RECURSIVE ArmedOf(_)
ArmedOf(filters) ==
    IF filters = <<>> THEN <<>>
    ELSE (IF Head(filters).editor # <<>> /\ Head(filters).editor[1].armed
          THEN <<Head(filters).editor[1].idx>> ELSE <<>>) \o ArmedOf(Tail(filters))

Sorted(idxs) == SortSeq(idxs, LAMBDA a, b : a < b)

HasGroup(groups, active) == At(groups, active) # <<>>

DisplayedGroups(groups, active) ==
    IF ~HasGroup(groups, active) THEN groups
    ELSE [groups EXCEPT ![active + 1] =
            [i \in 1..Len(groups[active + 1]) |->
                [groups[active + 1][i] EXCEPT
                    !.editor = NewEditor(groups[active + 1][i].func, i - 1)]]]

DisplayedTimers(groups, active, pending) ==
    IF ~HasGroup(groups, active) THEN pending
    ELSE Sorted(pending \o ArmedOf(groups[active + 1]))

DisplayedShown(groups, active, was) == IF HasGroup(groups, active) THEN active ELSE was

(***************************************************************************)
(* The tail of a handler: process() and save().  An exception of a step    *)
(* function leaves process() before editor.set and, in every handler,      *)
(* skips the save() that follows it.                                       *)
(***************************************************************************)
\* A tail that hands the viewer whatever the fold held when it ended.
ProcessShowsPartial(op, src, cont, groups, active) ==
    LET r == Process(cont, groups, active)
    IN  /\ viewer' = r.data
        /\ storage' = IF r.status = "throw" THEN storage ELSE <<Record(src, groups, active)>>
        /\ run' = [op |-> op, status |-> r.status, ran |-> r.ran,
                   saved |-> r.status # "throw"]

ProcessThenSave(op, src, cont, groups, active) ==
    LET r == Process(cont, groups, active)
    IN  /\ viewer' = IF r.status = "set" THEN r.data ELSE viewer
        /\ storage' = IF r.status = "throw" THEN storage ELSE <<Record(src, groups, active)>>
        /\ run' = [op |-> op, status |-> r.status, ran |-> r.ran,
                   saved |-> r.status # "throw"]

ProcessOnly(op, cont, groups, active) ==
    LET r == Process(cont, groups, active)
    IN  /\ viewer' = IF r.status = "set" THEN r.data ELSE viewer
        /\ storage' = storage
        /\ run' = [op |-> op, status |-> r.status, ran |-> r.ran,
                   saved |-> FALSE]

SaveOnly(op, src, groups, active) ==
    /\ viewer' = viewer
    /\ storage' = <<Record(src, groups, active)>>
    /\ run' = [op |-> op, status |-> "none", ran |-> 0, saved |-> TRUE]

Neither(op) ==
    /\ viewer' = viewer
    /\ storage' = storage
    /\ run' = [op |-> op, status |-> "none", ran |-> 0, saved |-> FALSE]

(***************************************************************************)
(* Sources and their fetches.                                              *)
(***************************************************************************)
SourceIds(src) == {src[i].id : i \in 1..Len(src)}

ContentIds(cont) == {cont[i].id : i \in 1..Len(cont)}

\* findIndex(e => e.id === id), 1-based here; 0 for the -1 of JavaScript
FindIndex(seq, id) ==
    IF \E i \in 1..Len(seq) : seq[i].id = id
    THEN CHOOSE i \in 1..Len(seq) : seq[i].id = id /\ \A j \in 1..(i - 1) : seq[j].id # id
    ELSE 0

\* seq.splice(idx, 1) for a 0-based idx >= 0
Splice1(seq, idx) ==
    IF idx < Len(seq) THEN SubSeq(seq, 1, idx) \o SubSeq(seq, idx + 2, Len(seq)) ELSE seq

Fetch(kind, id, url) == [kind |-> kind, id |-> id, url |-> url, reqs |-> <<>>]

\* The submit handler of the add dialog (138-155), up to the start of the fetch.
AddSource(url) ==
    /\ phase = "ready"
    /\ nextSourceId <= MaxSources
    /\ Cardinality(fetches) < MaxFetches
    /\ sources' = Append(sources, [url |-> url, id |-> nextSourceId])
    /\ nextSourceId' = nextSourceId + 1
    /\ fetches' = fetches \cup {Fetch("add", nextSourceId, url)}
    /\ Neither("addSource")
    /\ UNCHANGED <<phase, content, filtersGroups, activeFilterGroup, shown, timers, nextFilterId>>

\* The fetch of the add dialog resolves (147-150) or rejects (151-154).
AddFetchDone(f, ok) ==
    /\ phase = "ready"
    /\ f \in fetches /\ f.kind = "add"
    /\ fetches' = fetches \ {f}
    /\ IF ok
       THEN /\ content' = Append(content, [id |-> f.id, data |-> Json(f.url)])
            /\ ProcessThenSave("addFetchDone", sources, content', filtersGroups, activeFilterGroup)
       ELSE /\ content' = content
            /\ Neither("addFetchFailed")
    /\ UNCHANGED <<phase, sources, filtersGroups, activeFilterGroup, shown, timers,
                   nextSourceId, nextFilterId>>

\* The submit handler of the edit dialog (158-180), up to the start of the fetch.
EditSource(id, url) ==
    /\ phase = "ready"
    /\ FindIndex(sources, id) # 0
    /\ Cardinality(fetches) < MaxFetches
    /\ sources' = [sources EXCEPT ![FindIndex(sources, id)].url = url]
    /\ fetches' = fetches \cup {Fetch("edit", id, url)}
    /\ Neither("editSource")
    /\ UNCHANGED <<phase, content, filtersGroups, activeFilterGroup, shown, timers,
                   nextSourceId, nextFilterId>>

\* The fetch of the edit dialog resolves (169-175) or rejects (176-179).
EditFetchDone(f, ok) ==
    /\ phase = "ready"
    /\ f \in fetches /\ f.kind = "edit"
    /\ fetches' = fetches \ {f}
    /\ IF ok /\ FindIndex(content, f.id) # 0
       THEN /\ content' = [content EXCEPT ![FindIndex(content, f.id)].data = Json(f.url)]
            /\ ProcessThenSave("editFetchDone", sources, content', filtersGroups, activeFilterGroup)
       ELSE /\ content' = content
            /\ Neither(IF ok THEN "editFetchDropped" ELSE "editFetchFailed")
    /\ UNCHANGED <<phase, sources, filtersGroups, activeFilterGroup, shown, timers,
                   nextSourceId, nextFilterId>>

\* The X button of a source (439-450).  The list, and so the button, exists
\* from load() on.
RemoveSource(id) ==
    /\ phase \in {"loading", "ready"}
    /\ FindIndex(sources, id) # 0
    /\ LET idx == FindIndex(sources, id) - 1
       IN  /\ sources' = Splice1(sources, idx)
           /\ content' = Splice1(content, idx)
    /\ ProcessThenSave("removeSource", sources', content', filtersGroups, activeFilterGroup)
    /\ UNCHANGED <<phase, filtersGroups, activeFilterGroup, shown, fetches, timers,
                   nextSourceId, nextFilterId>>

(***************************************************************************)
(* Groups and steps.                                                       *)
(***************************************************************************)
\* The timers pending: those of editors that are gone and those of the
\* editors the steps still hold.
RECURSIVE ArmedOfAll(_)
ArmedOfAll(groups) ==
    IF groups = <<>> THEN <<>> ELSE ArmedOf(Head(groups)) \o ArmedOfAll(Tail(groups))

PendingTimers == Len(timers) + Len(ArmedOfAll(filtersGroups))

\* selectFilterGroupChange (323-334): v = parseInt(select.value)
SelectGroup(v) ==
    /\ phase = "ready"
    /\ v # activeFilterGroup
    /\ activeFilterGroup' = v
    /\ filtersGroups' = DisplayedGroups(filtersGroups, v)
    /\ timers' = DisplayedTimers(filtersGroups, v, timers)
    /\ shown' = DisplayedShown(filtersGroups, v, shown)
    /\ ProcessThenSave("selectGroup", sources, content, filtersGroups', v)
    /\ UNCHANGED <<phase, sources, content, fetches, nextSourceId, nextFilterId>>

\* btnFiltersReset (335-342)
FiltersReset ==
    /\ phase = "ready"
    /\ IF HasGroup(filtersGroups, activeFilterGroup)
       THEN LET emptied == [filtersGroups EXCEPT ![activeFilterGroup + 1] = <<>>]
            IN  /\ filtersGroups' = DisplayedGroups(emptied, activeFilterGroup)
                /\ timers' = DisplayedTimers(emptied, activeFilterGroup,
                                 Sorted(timers \o ArmedOf(filtersGroups[activeFilterGroup + 1])))
                /\ shown' = DisplayedShown(emptied, activeFilterGroup, shown)
                /\ SaveOnly("reset", sources, filtersGroups', activeFilterGroup)
       ELSE /\ UNCHANGED <<filtersGroups, timers, shown>>
            /\ Neither("resetIgnored")
    /\ UNCHANGED <<phase, sources, content, activeFilterGroup, fetches, nextSourceId, nextFilterId>>

\* bntFiltersAdd (343-362).  With no group at the active index one is made
\* there; the index is then the length of the list.
FiltersAdd ==
    /\ phase = "ready"
    /\ nextFilterId <= MaxFilters
    /\ HasGroup(filtersGroups, activeFilterGroup) \/ activeFilterGroup = Len(filtersGroups)
    /\ LET made == IF HasGroup(filtersGroups, activeFilterGroup) THEN filtersGroups
                   ELSE Append(filtersGroups, <<>>)
           pushed == [made EXCEPT ![activeFilterGroup + 1] =
                        Append(@, [id |-> nextFilterId, type |-> "select",
                                   func |-> NewFunction(<<"return e;">>), editor |-> <<>>])]
       IN  /\ filtersGroups' = DisplayedGroups(pushed, activeFilterGroup)
           /\ timers' = DisplayedTimers(pushed, activeFilterGroup, timers)
           /\ shown' = DisplayedShown(pushed, activeFilterGroup, shown)
    /\ nextFilterId' = nextFilterId + 1
    /\ ProcessThenSave("addFilter", sources, content, filtersGroups', activeFilterGroup)
    /\ UNCHANGED <<phase, sources, content, activeFilterGroup, fetches, nextSourceId>>

\* btnFilterGroupAdd (363-382)
GroupAdd ==
    /\ phase = "ready"
    /\ Len(filtersGroups) < MaxGroups
    /\ LET pushed == Append(filtersGroups, <<>>)
           idx == Len(pushed) - 1
       IN  /\ activeFilterGroup' = idx
           /\ filtersGroups' = DisplayedGroups(pushed, idx)
           /\ timers' = DisplayedTimers(pushed, idx, timers)
           /\ shown' = DisplayedShown(pushed, idx, shown)
    /\ ProcessThenSave("addGroup", sources, content, filtersGroups', activeFilterGroup')
    /\ UNCHANGED <<phase, sources, content, fetches, nextSourceId, nextFilterId>>

\* A delete button that splices the active group out of the list.
GroupDelRemoves ==
    /\ phase = "ready"
    /\ filtersGroups' = IF HasGroup(filtersGroups, activeFilterGroup)
                        THEN Splice1(filtersGroups, activeFilterGroup)
                        ELSE filtersGroups
    /\ SaveOnly("delGroup", sources, filtersGroups', activeFilterGroup)
    /\ UNCHANGED <<phase, sources, content, activeFilterGroup, shown, fetches,
                   timers, nextSourceId, nextFilterId>>

\* btnFitlerGroupDel (383-389)
GroupDel ==
    /\ phase = "ready"
    /\ SaveOnly("delGroup", sources, filtersGroups, activeFilterGroup)
    /\ UNCHANGED <<phase, sources, content, filtersGroups, activeFilterGroup, shown, fetches,
                   timers, nextSourceId, nextFilterId>>

\* The change handler of a step's kind select (222-232), for the step with
\* the given id of the list shown.
KindChange(id, value) ==
    /\ phase = "ready"
    /\ shown >= 0 /\ FindIndex(filtersGroups[shown + 1], id) # 0
    /\ HasGroup(filtersGroups, activeFilterGroup)
    /\ FindIndex(filtersGroups[activeFilterGroup + 1], id) # 0
    /\ LET idx == FindIndex(filtersGroups[activeFilterGroup + 1], id)
       IN  /\ filtersGroups[activeFilterGroup + 1][idx].type # value
           /\ filtersGroups' = [filtersGroups EXCEPT ![activeFilterGroup + 1][idx].type = value]
    /\ ProcessOnly("kindChange", content, filtersGroups', activeFilterGroup)
    /\ UNCHANGED <<phase, sources, content, activeFilterGroup, shown, fetches, timers,
                   nextSourceId, nextFilterId>>

\* A removal that cuts the list at the step of the id.
RECURSIVE WithoutIdAndAfter(_, _)
WithoutIdAndAfter(filters, id) ==
    IF filters = <<>> \/ Head(filters).id = id THEN <<>>
    ELSE <<Head(filters)>> \o WithoutIdAndAfter(Tail(filters), id)

\* filters.filter(e => e.id !== id)
RECURSIVE WithoutId(_, _)
WithoutId(filters, id) ==
    IF filters = <<>> THEN <<>>
    ELSE (IF Head(filters).id # id THEN <<Head(filters)>> ELSE <<>>) \o WithoutId(Tail(filters), id)

RECURSIVE WithId(_, _)
WithId(filters, id) ==
    IF filters = <<>> THEN <<>>
    ELSE (IF Head(filters).id = id THEN <<Head(filters)>> ELSE <<>>) \o WithId(Tail(filters), id)

\* The click handler of a step's X button (239-245), for the step with the
\* given id of the list shown.
FilterRemove(id) ==
    /\ phase = "ready"
    /\ shown >= 0 /\ FindIndex(filtersGroups[shown + 1], id) # 0
    /\ HasGroup(filtersGroups, activeFilterGroup)
    /\ LET group == filtersGroups[activeFilterGroup + 1]
           removed == [filtersGroups EXCEPT ![activeFilterGroup + 1] = WithoutId(group, id)]
       IN  /\ filtersGroups' = DisplayedGroups(removed, activeFilterGroup)
           /\ timers' = DisplayedTimers(removed, activeFilterGroup,
                            Sorted(timers \o ArmedOf(WithId(group, id))))
           /\ shown' = DisplayedShown(removed, activeFilterGroup, shown)
    /\ ProcessOnly("removeFilter", content, filtersGroups', activeFilterGroup)
    /\ UNCHANGED <<phase, sources, content, activeFilterGroup, fetches, nextSourceId, nextFilterId>>

(***************************************************************************)
(* Editing a step's text: the editor's change event goes through           *)
(* debounce (26-33) to handleFilterChange (278-289).                       *)
(***************************************************************************)
\* A change handler that sets a timer and leaves the one it set before
\* to run out as well.
EditorChangeNoClear(i, text) ==
    /\ phase = "ready"
    /\ shown >= 0 /\ i \in 1..Len(filtersGroups[shown + 1])
    /\ LET filter == filtersGroups[shown + 1][i]
       IN  /\ filter.editor # <<>>
           /\ filter.editor[1].text # text
           /\ PendingTimers < MaxTimers \/ (filter.editor[1].armed /\ PendingTimers <= MaxTimers)
           /\ filtersGroups' = [filtersGroups EXCEPT ![shown + 1][i].editor =
                                    <<[@[1] EXCEPT !.text = text, !.armed = TRUE]>>]
           /\ timers' = IF filter.editor[1].armed
                        THEN Sorted(Append(timers, filter.editor[1].idx)) ELSE timers
           /\ Neither("editorChange")
    /\ UNCHANGED <<phase, sources, content, activeFilterGroup, shown, fetches,
                   nextSourceId, nextFilterId>>

\* A change event of the editor of step i (1-based) of the list shown: the
\* handler clears its timer and sets it again.
EditorChange(i, text) ==
    /\ phase = "ready"
    /\ shown >= 0 /\ i \in 1..Len(filtersGroups[shown + 1])
    /\ LET filter == filtersGroups[shown + 1][i]
       IN  /\ filter.editor # <<>>
           /\ filter.editor[1].text # text
           /\ filter.editor[1].armed \/ PendingTimers < MaxTimers
           /\ filtersGroups' = [filtersGroups EXCEPT ![shown + 1][i].editor =
                                    <<[@[1] EXCEPT !.text = text, !.armed = TRUE]>>]
           /\ Neither("editorChange")
    /\ UNCHANGED <<phase, sources, content, activeFilterGroup, shown, fetches, timers,
                   nextSourceId, nextFilterId>>

\* A handler that compiles the text of the editor of the first step of the
\* active group, whichever step it addresses.
HandleFilterChangeFirstEditor(index, groups) ==
    LET filters == At(groups, activeFilterGroup)
        filter == IF filters = <<>> THEN <<>> ELSE At(filters[1], index)
        value == IF filters[1][1].editor = <<>> THEN <<"undefined">>
                 ELSE filters[1][1].editor[1].text
    IN  IF filter = <<>>
        THEN /\ filtersGroups' = groups
             /\ Neither("changeIgnored")
        ELSE IF ~Compiles(value)
        THEN /\ filtersGroups' = groups
             /\ Neither("compileError")
        ELSE /\ filtersGroups' =
                    [groups EXCEPT ![activeFilterGroup + 1][index + 1].func = NewFunction(value)]
             /\ ProcessThenSave("recompile", sources, content, filtersGroups', activeFilterGroup)

\* handleFilterChange(index) run on the given groups
HandleFilterChange(index, groups) ==
    LET filters == At(groups, activeFilterGroup)
        filter == IF filters = <<>> THEN <<>> ELSE At(filters[1], index)
        value == IF filter[1].editor = <<>> THEN <<"undefined">> ELSE filter[1].editor[1].text
    IN  IF filter = <<>>
        THEN /\ filtersGroups' = groups
             /\ Neither("changeIgnored")
        ELSE IF ~Compiles(value)
        THEN /\ filtersGroups' = groups
             /\ Neither("compileError")
        ELSE /\ filtersGroups' =
                    [groups EXCEPT ![activeFilterGroup + 1][index + 1].func = NewFunction(value)]
             /\ ProcessThenSave("recompile", sources, content, filtersGroups', activeFilterGroup)

\* The timer of the editor that step i of group g holds runs out.
TimerFire(g, i) ==
    /\ phase = "ready"
    /\ g \in 1..Len(filtersGroups) /\ i \in 1..Len(filtersGroups[g])
    /\ filtersGroups[g][i].editor # <<>>
    /\ filtersGroups[g][i].editor[1].armed
    /\ HandleFilterChange(filtersGroups[g][i].editor[1].idx,
            [filtersGroups EXCEPT ![g][i].editor = <<[@[1] EXCEPT !.armed = FALSE]>>])
    /\ UNCHANGED <<phase, sources, content, activeFilterGroup, shown, fetches, timers,
                   nextSourceId, nextFilterId>>

\* A timer whose editor is gone runs out.
StaleTimerFire(k) ==
    /\ phase = "ready"
    /\ k \in 1..Len(timers)
    /\ timers' = SubSeq(timers, 1, k - 1) \o SubSeq(timers, k + 1, Len(timers))
    /\ HandleFilterChange(timers[k], filtersGroups)
    /\ UNCHANGED <<phase, sources, content, activeFilterGroup, shown, fetches,
                   nextSourceId, nextFilterId>>

(***************************************************************************)
(* Start: the constructor runs load().then(() => this.init()) (117-122).   *)
(***************************************************************************)
\* load() up to its await (458-472), and init() right away when there is
\* no record.  JSON.parse throwing rejects load(): init() never runs.
Load ==
    /\ phase = "boot"
    /\ IF storage = <<>>
       THEN /\ phase' = "ready"
            /\ UNCHANGED <<sources, filtersGroups, activeFilterGroup, fetches>>
       ELSE IF ParseThrows(storage[1])
       THEN /\ phase' = "failed"
            /\ UNCHANGED <<sources, filtersGroups, activeFilterGroup, fetches>>
       ELSE /\ phase' = "loading"
            /\ filtersGroups' = ParsedGroups(storage[1])
            /\ activeFilterGroup' = storage[1].active
            /\ sources' = storage[1].sources
            /\ fetches' = {[kind |-> "load", id |-> 0, url |-> "", reqs |-> storage[1].sources]}
    /\ Neither("load")
    /\ UNCHANGED <<content, shown, timers, nextSourceId, nextFilterId>>

\* Promise.all of load() settles (474-480), then init() runs (124-203) and
\* ends with updateDisplay().  oks: the requests, by position, whose fetch
\* resolves; Promise.all resolves when they all do and rejects otherwise.
LoadDone(f, oks) ==
    /\ phase = "loading"
    /\ f \in fetches /\ f.kind = "load"
    /\ fetches' = fetches \ {f}
    /\ phase' = "ready"
    /\ IF oks = 1..Len(f.reqs)
       THEN /\ content' = [i \in 1..Len(f.reqs) |->
                              [data |-> Json(f.reqs[i].url), id |-> f.reqs[i].id]]
            /\ ProcessOnly("loadDone", content', filtersGroups, activeFilterGroup)
       ELSE /\ content' = content
            /\ UNCHANGED <<viewer, storage>>
            /\ run' = [op |-> "loadFailed", status |-> "none", ran |-> 0, saved |-> FALSE,
                       resolved |-> {f.reqs[i].id : i \in oks}]
    /\ filtersGroups' = DisplayedGroups(filtersGroups, activeFilterGroup)
    /\ shown' = DisplayedShown(filtersGroups, activeFilterGroup, shown)
    /\ UNCHANGED <<sources, activeFilterGroup, timers, nextSourceId, nextFilterId>>

\* The page is loaded again: a new App with the fields as declared
\* (110-114), the timers and fetches of the old page gone, the storage as it
\* was left; then the constructor's load() up to its await.
Reload ==
    /\ phase = "ready"
    /\ content' = <<>>
    /\ shown' = -1
    /\ timers' = <<>>
    /\ viewer' = Unset
    /\ IF storage = <<>>
       THEN /\ phase' = "ready"
            /\ sources' = <<>> /\ filtersGroups' = <<>> /\ activeFilterGroup' = 0
            /\ fetches' = {}
       ELSE IF ParseThrows(storage[1])
       THEN /\ phase' = "failed"
            /\ sources' = <<>> /\ filtersGroups' = <<>> /\ activeFilterGroup' = 0
            /\ fetches' = {}
       ELSE /\ phase' = "loading"
            /\ filtersGroups' = ParsedGroups(storage[1])
            /\ activeFilterGroup' = storage[1].active
            /\ sources' = storage[1].sources
            /\ fetches' = {[kind |-> "load", id |-> 0, url |-> "", reqs |-> storage[1].sources]}
    /\ run' = [op |-> "reload", status |-> "none", ran |-> 0, saved |-> FALSE]
    /\ UNCHANGED <<storage, nextSourceId, nextFilterId>>

(***************************************************************************)
(* The program from its start.                                             *)
(***************************************************************************)
NoRun == [op |-> "none", status |-> "none", ran |-> 0, saved |-> FALSE]

\* A record an earlier session saved: one source, two groups, the second
\* one active.
SavedRecord ==
    [sources |-> <<[url |-> "u1", id |-> 11]>>,
     filters |-> <<<<[id |-> 21, type |-> "map", func |-> <<"return e.x*10;">>]>>,
                   <<[id |-> 22, type |-> "select", func |-> <<"return 0;">>]>>>>,
     active |-> 1]

\* The same record with the text of its first step not compiling.
BrokenRecord ==
    [SavedRecord EXCEPT !.filters[1][1].func = <<BadStatement>>]

BootRecords == {<<>>, <<SavedRecord>>, <<BrokenRecord>>}

Boot(records) ==
    /\ phase = "boot"
    /\ sources = <<>>
    /\ content = <<>>
    /\ filtersGroups = <<>>
    /\ activeFilterGroup = 0
    /\ shown = -1
    /\ viewer = Unset
    /\ storage \in records
    /\ fetches = {}
    /\ timers = <<>>
    /\ nextSourceId = 1
    /\ nextFilterId = 1
    /\ run = NoRun

Init == Boot(BootRecords)

\* The ids of the steps the list shows.
ShownIds ==
    IF shown >= 0 THEN {filtersGroups[shown + 1][i].id : i \in 1..Len(filtersGroups[shown + 1])}
    ELSE {}

ShownLen == IF shown >= 0 THEN Len(filtersGroups[shown + 1]) ELSE 0

StartNext ==
    \/ Load
    \/ \E f \in fetches : \E oks \in SUBSET (1..Len(f.reqs)) : LoadDone(f, oks)

SourcesNext ==
    \/ \E url \in Urls : AddSource(url)
    \/ \E f \in fetches, ok \in BOOLEAN : AddFetchDone(f, ok)
    \/ \E id \in SourceIds(sources), url \in Urls : EditSource(id, url)
    \/ \E f \in fetches, ok \in BOOLEAN : EditFetchDone(f, ok)
    \/ \E id \in SourceIds(sources) : RemoveSource(id)

GroupsNext ==
    \/ \E v \in 0..Len(filtersGroups) : SelectGroup(v)
    \/ FiltersReset
    \/ FiltersAdd
    \/ GroupAdd
    \/ GroupDel
    \/ \E id \in ShownIds, value \in Kinds : KindChange(id, value)
    \/ \E id \in ShownIds : FilterRemove(id)

EditorsNext ==
    \/ \E i \in 1..ShownLen, text \in EditorTexts : EditorChange(i, text)
    \/ \E g \in 1..Len(filtersGroups) : \E i \in 1..Len(filtersGroups[g]) : TimerFire(g, i)
    \/ \E k \in 1..Len(timers) : StaleTimerFire(k)

Next == StartNext \/ SourcesNext \/ GroupsNext \/ EditorsNext \/ Reload

\* The whole program.
Spec == Init /\ [][Next]_vars

(***************************************************************************)
(* The sources and their fetches, over the pipeline of the saved record.   *)
(***************************************************************************)
SourcesInit == Boot(BootRecords)

SourcesSpec == SourcesInit /\ [][StartNext \/ SourcesNext]_vars

(***************************************************************************)
(* The handlers of the groups and steps, from an empty localStorage.       *)
(***************************************************************************)
FreshInit == Boot({<<>>})

MutatorsSpec == FreshInit /\ [][Load \/ GroupsNext]_vars

(***************************************************************************)
(* The editors of the steps and their debounce timers, among the handlers  *)
(* that redraw the list.                                                   *)
(***************************************************************************)
RedrawNext ==
    \/ \E v \in 0..Len(filtersGroups) : SelectGroup(v)
    \/ FiltersAdd
    \/ Len(filtersGroups) < MaxEditGroups /\ GroupAdd
    \/ \E id \in ShownIds : FilterRemove(id)

EditorsSpec == FreshInit /\ [][Load \/ RedrawNext \/ EditorsNext]_vars

(***************************************************************************)
(* The pipeline run over the records an earlier session can have saved:    *)
(* one group of up to MaxSteps steps of every kind.                        *)
(***************************************************************************)
StepTexts ==
    {<<"return e;">>, <<"return e.x>1;">>, <<"return e.x*10;">>, <<"return 0;">>,
     <<"return [e,e];">>, <<"throw new Error('x');">>}

StepChoices == [type : Kinds, func : StepTexts]

StoredGroupsOfLen(k) ==
    {[i \in 1..k |-> [id |-> 30 + i, type |-> c[i].type, func |-> c[i].func]] :
        c \in [1..k -> StepChoices]}

StoredGroups == UNION {StoredGroupsOfLen(k) : k \in 0..MaxSteps}

RunSources ==
    {<<>>, <<[url |-> "u1", id |-> 11]>>, <<[url |-> "u1", id |-> 11], [url |-> "u2", id |-> 12]>>}

RunRecords ==
    {[sources |-> src, filters |-> <<g>>, active |-> 0] : src \in RunSources, g \in StoredGroups}

RunInit == Boot({<<rec>> : rec \in RunRecords})

RunNext ==
    \/ StartNext
    \/ \E id \in SourceIds(sources) : RemoveSource(id)

RunSpec == RunInit /\ [][RunNext]_vars

(***************************************************************************)
(* What the claims speak of.                                               *)
(***************************************************************************)
\* The steps process() runs: those of the group at the active index.
ActiveSteps(groups, active) == IF HasGroup(groups, active) THEN groups[active + 1] ELSE <<>>

\* The fold over the first k steps only: its data is the current data of
\* step k + 1 when its status is "set".
Prefix(cont, steps, k) == Fold(Seed(cont), SubSeq(steps, 1, k), 1)

\* Data a select step cannot index: null, undefined or no object.
NotAnObject(d) == Nullish(d) \/ d.t \notin {"array", "object"}

\* The step's function is called with the data and a call throws.
TransformThrows(filter, d) ==
    \/ /\ filter.type \in {"filter", "map", "flatmap"}
       /\ IsArray(d)
       /\ AnyThrown(CallAll(d.items, filter.func))
    \/ /\ filter.type = "select"
       /\ ~NotAnObject(d)
       /\ Call(filter.func, Undefined, Undefined, Undefined).thrown

\* The handler of this step called process().
Processed == run'.status # "none"

(***************************************************************************)
(* C1: in a run of process(), a filter, map or flatmap step whose current  *)
(* data is not an array leaves the data as it is and the fold goes on with *)
(* the next step; a select step whose current data is null, undefined or   *)
(* no object ends the run there: no later step runs, editor.set is not     *)
(* called and the viewer shows what it showed before.                      *)
(***************************************************************************)
C1_SkipOrAbort ==
    [][Processed =>
        LET steps == ActiveSteps(filtersGroups', activeFilterGroup')
        IN  \A k \in 1..Len(steps) :
                LET before == Prefix(content', steps, k - 1)
                IN  before.status = "set" =>
                      /\ (steps[k].type \in {"filter", "map", "flatmap"} /\ ~IsArray(before.data))
                            => Prefix(content', steps, k)
                                 = [status |-> "set", data |-> before.data, ran |-> k]
                      /\ (steps[k].type = "select" /\ NotAnObject(before.data))
                            => /\ run'.status = "abort"
                               /\ run'.ran = k - 1
                               /\ viewer' = viewer]_vars

\* A run that a select step ended after the first step, with a result of
\* an earlier run on display.
C1_Witness ==
    /\ run.status = "abort"
    /\ run.ran >= 1
    /\ viewer # Unset
    /\ LET steps == ActiveSteps(filtersGroups, activeFilterGroup)
       IN  /\ Len(steps) > run.ran
           /\ steps[run.ran + 1].type = "select"
           /\ NotAnObject(Prefix(content, steps, run.ran).data)

(***************************************************************************)
(* C8: when the function of a step, at any position of the active group,   *)
(* throws during a run of process(), editor.set is not called: the viewer  *)
(* shows what it showed before, not the data folded so far.                *)
(***************************************************************************)
C8_ThrowShowsNothing ==
    [][Processed =>
        LET steps == ActiveSteps(filtersGroups', activeFilterGroup')
        IN  \A k \in 1..Len(steps) :
                LET before == Prefix(content', steps, k - 1)
                IN  (before.status = "set" /\ TransformThrows(steps[k], before.data))
                        => (run'.status = "throw" /\ viewer' = viewer)]_vars

\* A run whose second step threw, with a result of an earlier run on display.
C8_Witness ==
    /\ run.status = "throw"
    /\ run.ran >= 1
    /\ viewer # Unset
    /\ LET steps == ActiveSteps(filtersGroups, activeFilterGroup)
       IN  TransformThrows(steps[run.ran + 1], Prefix(content, steps, run.ran).data)

(***************************************************************************)
(* C2: a source removed while its fetch is in flight: the completion that  *)
(* arrives after the removal adds no content item and changes no content.  *)
(***************************************************************************)
\* The fetches of the add and edit dialogs that this step completes.
Completed == {f \in fetches \ fetches' : f.kind \in {"add", "edit"}}

C2_LateCompletionDiscarded ==
    [][\A f \in Completed : f.id \notin SourceIds(sources) => content' = content]_vars

(***************************************************************************)
(* C3: in every reachable state the ids of the content items are ids of    *)
(* sources.                                                                *)
(***************************************************************************)
C3_ContentOfSources == ContentIds(content) \subseteq SourceIds(sources)

(***************************************************************************)
(* C4: removing a source removes that source and the content item of its   *)
(* id, if there is one, and leaves every other source and content item as  *)
(* it is.                                                                  *)
(***************************************************************************)
RECURSIVE WithoutSource(_, _)
WithoutSource(seq, id) ==
    IF seq = <<>> THEN <<>>
    ELSE (IF Head(seq).id # id THEN <<Head(seq)>> ELSE <<>>) \o WithoutSource(Tail(seq), id)

C4_RemoveExactly ==
    [][run'.op = "removeSource" =>
        \E id \in SourceIds(sources) :
            /\ sources' = WithoutSource(sources, id)
            /\ content' = WithoutSource(content, id)]_vars

(***************************************************************************)
(* C5: a fetch for a source that exists resolves: its data is the content  *)
(* item of that id from then on, whether or not the id had a content item  *)
(* (upsert); so also when the first fetch failed and an edit of the url    *)
(* started this one.                                                       *)
(***************************************************************************)
Resolved == run'.op \in {"addFetchDone", "editFetchDone", "editFetchDropped"}

C5_Upsert ==
    [][Resolved =>
        \A f \in Completed :
            f.id \in SourceIds(sources) =>
                \E i \in 1..Len(content') :
                    content'[i].id = f.id /\ content'[i].data = Json(f.url)]_vars

(***************************************************************************)
(* C10: load() takes a record with one step whose text does not compile:   *)
(* the load does not fail as a whole; the groups, the other steps, the     *)
(* sources and the active index are restored and init() runs.              *)
(***************************************************************************)
C10_LoadIsolatesBadStep ==
    (phase # "boot" /\ storage # <<>> /\ ParseThrows(storage[1])) =>
        /\ phase \in {"loading", "ready"}
        /\ sources = storage[1].sources
        /\ activeFilterGroup = storage[1].active
        /\ Len(filtersGroups) = Len(storage[1].filters)
        /\ \A g \in 1..Len(filtersGroups) : \A i \in 1..Len(filtersGroups[g]) :
               Compiles(storage[1].filters[g][i].func) =>
                   \E j \in 1..Len(filtersGroups[g]) :
                       /\ filtersGroups[g][j].id = storage[1].filters[g][i].id
                       /\ filtersGroups[g][j].func.body = storage[1].filters[g][i].func

(***************************************************************************)
(* C6: selecting a group index outside 0..groups.length-1 is rejected:     *)
(* the active index, the groups, the displayed result and the persisted    *)
(* record stay as they were.                                               *)
(***************************************************************************)
C6_IndexErrorRejects ==
    [][(run'.op = "selectGroup" /\ activeFilterGroup' \notin 0..(Len(filtersGroups) - 1)) =>
         UNCHANGED <<activeFilterGroup, filtersGroups, viewer, storage>>]_vars

(***************************************************************************)
(* C7: when a handler that changes the pipeline state finishes, the        *)
(* persisted record is the encoding of the current sources, groups and     *)
(* active index, and the displayed result is the run over the current      *)
(* state.                                                                  *)
(***************************************************************************)
Mutators ==
    {"selectGroup", "reset", "addFilter", "addGroup", "kindChange", "removeFilter"}

C7_RecomputeThenSave ==
    run.op \in Mutators =>
        LET r == Process(content, filtersGroups, activeFilterGroup)
        IN  /\ storage = <<Record(sources, filtersGroups, activeFilterGroup)>>
            /\ r.status = "set" => viewer = r.data

(***************************************************************************)
(* C9: the debounced recompile of a step whose edited text does not        *)
(* compile leaves the step's installed function as it was, and changes no  *)
(* other step, no group, not the active index and not the persisted        *)
(* record.                                                                 *)
(***************************************************************************)
\* The indices handed to handleFilterChange by the timer that runs out in
\* this step: of an editor that was armed and no longer is, or taken from
\* the timers of editors that are gone.
FiredLive ==
    {filtersGroups[g][i].editor[1].idx : <<g, i>> \in
        {p \in (1..Len(filtersGroups)) \X (1..MaxFilters + 1) :
            /\ p[2] <= Len(filtersGroups[p[1]])
            /\ filtersGroups[p[1]][p[2]].editor # <<>>
            /\ filtersGroups[p[1]][p[2]].editor[1].armed
            /\ Len(filtersGroups') = Len(filtersGroups)
            /\ Len(filtersGroups'[p[1]]) = Len(filtersGroups[p[1]])
            /\ filtersGroups'[p[1]][p[2]].editor # <<>>
            /\ ~filtersGroups'[p[1]][p[2]].editor[1].armed}}

FiredStale ==
    {timers[k] : k \in {j \in 1..Len(timers) :
        timers' = SubSeq(timers, 1, j - 1) \o SubSeq(timers, j + 1, Len(timers))}}

Fired == run'.op \in {"changeIgnored", "compileError", "recompile"}

\* The text handleFilterChange(index) hands to the compiler, if it gets
\* that far.
EditedText(index) ==
    LET filters == At(filtersGroups, activeFilterGroup)
        filter == IF filters = <<>> THEN <<>> ELSE At(filters[1], index)
    IN  IF filter = <<>> \/ filter[1].editor = <<>> THEN <<>>
        ELSE <<filter[1].editor[1].text>>

\* The steps as installed: ids, kinds and functions, group by group.
Installed(groups) ==
    [g \in 1..Len(groups) |->
        [i \in 1..Len(groups[g]) |->
            [id |-> groups[g][i].id, type |-> groups[g][i].type, func |-> groups[g][i].func]]]

C9_CompileErrorKeepsTransform ==
    [][Fired =>
        \A index \in FiredLive \cup FiredStale :
            (EditedText(index) # <<>> /\ Code(EditedText(index)[1]) = <<BadStatement>>) =>
                /\ Installed(filtersGroups') = Installed(filtersGroups)
                /\ UNCHANGED <<activeFilterGroup, storage, viewer, sources, content>>]_vars

C9_Witness ==
    /\ run.op = "compileError"
    /\ storage # <<>>
    /\ \E i \in 1..ShownLen :
          /\ filtersGroups[shown + 1][i].editor # <<>>
          /\ Code(filtersGroups[shown + 1][i].editor[1].text) = <<BadStatement>>
          /\ ~filtersGroups[shown + 1][i].editor[1].armed
          /\ Compiles(filtersGroups[shown + 1][i].func.body)

(***************************************************************************)
(* Sessions one after the other: steps are added, their kinds and texts    *)
(* changed, and the page is loaded again from what save() left.            *)
(***************************************************************************)
\* A text typed into an editor with white space around it.
ReloadTexts == {<<" ", "return 0;", "\n">>}

ReloadNext ==
    \/ StartNext
    \/ FiltersAdd
    \/ GroupAdd
    \/ \E id \in ShownIds : KindChange(id, "map")
    \/ \E i \in 1..ShownLen, text \in ReloadTexts : EditorChange(i, text)
    \/ \E g \in 1..Len(filtersGroups) : \E i \in 1..Len(filtersGroups[g]) : TimerFire(g, i)
    \/ Reload

ReloadSpec == FreshInit /\ [][ReloadNext]_vars

(***************************************************************************)
(* C11: save() followed by load(): the groups loaded are as many as the    *)
(* groups saved, each with the same steps in the same order, of the same   *)
(* id and kind, and with a function whose encoded body is the encoded body *)
(* of the saved function and which returns what the saved one returns; the *)
(* active index is the same; the record holds of a step its id, its kind   *)
(* and the body text of its function, and no editor.                       *)
(***************************************************************************)
\* Arguments to try a step function on.
Probes == {Undefined, Num(0), Obj(<<[k |-> "x", val |-> Num(5)]>>)}

SameWhenCalled(f, g) ==
    \A e \in Probes : Call(f, e, Num(0), Arr(<<e>>)) = Call(g, e, Num(0), Arr(<<e>>))

C11_SaveLoadRoundTrip ==
    [][(run'.op = "reload" /\ storage = <<Record(sources, filtersGroups, activeFilterGroup)>>) =>
        /\ Len(filtersGroups') = Len(filtersGroups)
        /\ activeFilterGroup' = activeFilterGroup
        /\ \A g \in 1..Len(filtersGroups) :
              /\ Len(filtersGroups'[g]) = Len(filtersGroups[g])
              /\ \A i \in 1..Len(filtersGroups[g]) :
                    LET saved == filtersGroups[g][i]
                        loaded == filtersGroups'[g][i]
                        stored == storage[1].filters[g][i]
                    IN  /\ loaded.id = saved.id
                        /\ loaded.type = saved.type
                        /\ getFunctionContent(loaded.func) = getFunctionContent(saved.func)
                        /\ SameWhenCalled(loaded.func, saved.func)
                        /\ DOMAIN stored = {"id", "type", "func"}
                        /\ stored.func = getFunctionContent(saved.func)]_vars

\* Loaded again with a step made a map whose text was typed with white
\* space around it.
C11_Witness ==
    /\ run.op = "reload"
    /\ phase = "loading"
    /\ \E g \in 1..Len(filtersGroups) : \E i \in 1..Len(filtersGroups[g]) :
          /\ filtersGroups[g][i].func.body = <<"return 0;">>
          /\ filtersGroups[g][i].type = "map"

(***************************************************************************)
(* A start from a record of two sources and no steps.                      *)
(***************************************************************************)
TwoSources ==
    [sources |-> <<[url |-> "u1", id |-> 11], [url |-> "u2", id |-> 12]>>,
     filters |-> <<>>, active |-> 0]

StartupNext ==
    \/ StartNext
    \/ \E id \in SourceIds(sources), url \in Urls : EditSource(id, url)
    \/ \E f \in fetches, ok \in BOOLEAN : EditFetchDone(f, ok)
    \/ \E id \in SourceIds(sources) : RemoveSource(id)

StartupSpec == Boot({<<TwoSources>>}) /\ [][StartupNext]_vars

(***************************************************************************)
(* C12: the fetches of the persisted sources are settled one by one at     *)
(* startup: when they have settled, every source whose fetch resolved has  *)
(* its content item, whichever others failed, and no source is removed.    *)
(***************************************************************************)
\* The startup fetch this step settles, and the ids whose fetch resolved.
Started == {f \in fetches \ fetches' : f.kind = "load"}

ResolvedAtStart(f) ==
    IF run'.op = "loadFailed" THEN run'.resolved ELSE {f.reqs[i].id : i \in 1..Len(f.reqs)}

C12_StartupFetchesIndependent ==
    [][\A f \in Started :
        /\ sources' = sources
        /\ \A i \in 1..Len(f.reqs) :
              (f.reqs[i].id \in ResolvedAtStart(f) /\ f.reqs[i].id \in SourceIds(sources)) =>
                  \E j \in 1..Len(content') :
                      /\ content'[j].id = f.reqs[i].id
                      /\ content'[j].data = Json(f.reqs[i].url)]_vars

(***************************************************************************)
(* C13: in every reachable state with at least one group the active index  *)
(* is that of a group, 0 <= active < number of groups; and a run with no   *)
(* group or with no step in the active group completes with the content    *)
(* as its result.                                                          *)
(***************************************************************************)
C13_ActiveIndexInRange ==
    /\ Len(filtersGroups) >= 1 => activeFilterGroup \in 0..(Len(filtersGroups) - 1)
    /\ (run.status # "none" /\ ActiveSteps(filtersGroups, activeFilterGroup) = <<>>) =>
           (run.status = "set" /\ viewer = Seed(content))

(***************************************************************************)
(* The single-source variant (489-842): one optional source url and one    *)
(* optional content value.  Here `sources` holds the url, if any, and      *)
(* `content` the value itself, undefined while nothing is loaded.          *)
(***************************************************************************)
SingleUrls == {"null", "false", "zero", "empty", "object", "array"}

\* The document a url of the single-source variant serves.
SingleJson(url) ==
    CASE url = "null" -> Null
      [] url = "false" -> Bool(FALSE)
      [] url = "zero" -> Num(0)
      [] url = "empty" -> Str("")
      [] url = "object" -> Obj(<<[k |-> "x", val |-> Num(2)]>>)
      [] OTHER -> Arr(<<Obj(<<[k |-> "x", val |-> Num(1)]>>), Obj(<<[k |-> "x", val |-> Num(2)]>>),
                        Obj(<<[k |-> "x", val |-> Num(3)]>>)>>)

\* One pass of the switch of the single-source process() (708-725): it has
\* no case "flatmap", which falls to default.
SingleStep(filter, data) ==
    IF filter.type = "flatmap" THEN [status |-> "next", data |-> data] ELSE Step(filter, data)

RECURSIVE SingleFold(_, _, _)
SingleFold(data, filters, i) ==
    IF i > Len(filters) THEN [status |-> "set", data |-> data, ran |-> i - 1]
    ELSE LET r == SingleStep(filters[i], data)
         IN  IF r.status = "next" THEN SingleFold(r.data, filters, i + 1)
             ELSE [status |-> r.status, data |-> r.data, ran |-> i - 1]

\* process() of the single-source variant (702-729)
SingleProcess(cont, groups, active) ==
    IF ~Truthy(cont) THEN [status |-> "abort", data |-> cont, ran |-> 0]
    ELSE LET filters == At(groups, active)
         IN  IF filters = <<>> THEN [status |-> "set", data |-> cont, ran |-> 0]
             ELSE SingleFold(cont, filters[1], 1)

\* save() of the single-source variant (813-819)
SingleRecord(src, groups, active) ==
    [source |-> src,
     filters |-> [g \in 1..Len(groups) |->
                    [i \in 1..Len(groups[g]) |-> sterilizeFilter(groups[g][i])]],
     active |-> active]

\* this.process(); this.save(); inside the try of loadJson (737-739)
SingleProcessThenSave(op, src, cont, groups, active) ==
    LET r == SingleProcess(cont, groups, active)
    IN  /\ viewer' = IF r.status = "set" THEN r.data ELSE viewer
        /\ storage' = IF r.status = "throw" THEN storage ELSE <<SingleRecord(src, groups, active)>>
        /\ run' = [op |-> op, status |-> r.status, ran |-> r.ran, saved |-> r.status # "throw"]

\* load() of the single-source variant (820-836) up to the fetch of
\* loadJson, and init() right away when there is no record or no source.
SingleLoad ==
    /\ phase = "boot"
    /\ IF storage = <<>>
       THEN /\ phase' = "ready"
            /\ UNCHANGED <<sources, filtersGroups, activeFilterGroup, fetches, shown>>
       ELSE IF ParseThrows(storage[1])
       THEN /\ phase' = "failed"
            /\ UNCHANGED <<sources, filtersGroups, activeFilterGroup, fetches, shown>>
       ELSE /\ activeFilterGroup' = storage[1].active
            /\ sources' = storage[1].source
            /\ IF storage[1].source # <<>>
               THEN /\ phase' = "loading"
                    /\ filtersGroups' = ParsedGroups(storage[1])
                    /\ fetches' = {[kind |-> "json", id |-> 0, url |-> storage[1].source[1],
                                     reqs |-> <<>>]}
                    /\ shown' = shown
               ELSE /\ phase' = "ready"
                    /\ filtersGroups' = DisplayedGroups(ParsedGroups(storage[1]), storage[1].active)
                    /\ shown' = DisplayedShown(ParsedGroups(storage[1]), storage[1].active, shown)
                    /\ fetches' = fetches
    /\ Neither("load")
    /\ UNCHANGED <<content, timers, nextSourceId, nextFilterId>>

\* The click handler loadJson (731-745) up to its first await.
SingleLoadJson(url) ==
    /\ phase = "ready"
    /\ nextSourceId <= MaxSources
    /\ Cardinality(fetches) < MaxFetches
    /\ fetches' = fetches \cup {[kind |-> "json", id |-> nextSourceId, url |-> url, reqs |-> <<>>]}
    /\ nextSourceId' = nextSourceId + 1
    /\ Neither("loadJson")
    /\ UNCHANGED <<phase, sources, content, filtersGroups, activeFilterGroup, shown, timers,
                   nextFilterId>>

\* The fetch of loadJson settles (735-743); when load() was waiting for it,
\* init() runs next and ends with updateDisplay().
SingleLoadJsonDone(f, ok) ==
    /\ f \in fetches /\ f.kind = "json"
    /\ fetches' = fetches \ {f}
    /\ IF ok
       THEN /\ content' = SingleJson(f.url)
            /\ sources' = <<f.url>>
            /\ SingleProcessThenSave("loadJsonDone", sources', content', filtersGroups,
                                     activeFilterGroup)
       ELSE /\ UNCHANGED <<content, sources>>
            /\ Neither("loadJsonFailed")
    /\ IF phase = "loading"
       THEN /\ phase' = "ready"
            /\ filtersGroups' = DisplayedGroups(filtersGroups, activeFilterGroup)
            /\ shown' = DisplayedShown(filtersGroups, activeFilterGroup, shown)
       ELSE UNCHANGED <<phase, filtersGroups, shown>>
    /\ UNCHANGED <<activeFilterGroup, timers, nextSourceId, nextFilterId>>

\* The single-source variant started on the records an earlier session can
\* have saved.
SingleRecords ==
    {[source |-> src, filters |-> <<g>>, active |-> 0] :
        src \in {<<>>} \cup {<<u>> : u \in SingleUrls}, g \in StoredGroups}
        \cup {[source |-> <<>>, filters |-> <<>>, active |-> 0]}

\* The fields as declared (575-579): source and content undefined.
SingleInit ==
    /\ phase = "boot"
    /\ sources = <<>>
    /\ content = Undefined
    /\ filtersGroups = <<>>
    /\ activeFilterGroup = 0
    /\ shown = -1
    /\ viewer = Unset
    /\ storage \in {<<rec>> : rec \in SingleRecords} \cup {<<>>}
    /\ fetches = {}
    /\ timers = <<>>
    /\ nextSourceId = 1
    /\ nextFilterId = 1
    /\ run = NoRun

SingleNext ==
    \/ SingleLoad
    \/ \E url \in SingleUrls : SingleLoadJson(url)
    \/ \E f \in fetches, ok \in BOOLEAN : SingleLoadJsonDone(f, ok)

SingleSpec == SingleInit /\ [][SingleNext]_vars

(***************************************************************************)
(* C14: identity law: with no group at the active index, or no step in     *)
(* the active group, a run hands the viewer the loaded content as it is,   *)
(* whatever JSON value it is (null, false, 0 and "" included).             *)
(***************************************************************************)
\* A fetch of loadJson resolved in this step: content was loaded and
\* process() called.
Loaded == run'.op = "loadJsonDone"

C14_IdentityLaw ==
    [][(Loaded /\ ActiveSteps(filtersGroups', activeFilterGroup') = <<>>) =>
          viewer' = content']_vars

(***************************************************************************)
(* Runs over lists of documents with groups of filter and map steps whose  *)
(* functions look at the element or at the index.                          *)
(***************************************************************************)
LawTexts == {<<"return e.x>1;">>, <<"return idx<1;">>, <<"return e.x*10;">>}

LawChoices == [type : {"filter", "map"}, func : LawTexts]

LawGroupsOfLen(k) ==
    {[i \in 1..k |-> [id |-> 30 + i, type |-> c[i].type, func |-> c[i].func]] :
        c \in [1..k -> LawChoices]}

LawGroups == UNION {LawGroupsOfLen(k) : k \in 0..MaxSteps}

\* Sources serving {x:1}, {x:2}, {x:3}, and [{x:1},3], {x:2}.
LawSources ==
    {<<[url |-> "x1", id |-> 11], [url |-> "u1", id |-> 12], [url |-> "x3", id |-> 13]>>,
     <<[url |-> "u2", id |-> 11], [url |-> "u1", id |-> 12]>>}

LawRecords ==
    {[sources |-> src, filters |-> <<g>>, active |-> 0] : src \in LawSources, g \in LawGroups}

LawInit == Boot({<<rec>> : rec \in LawRecords})

LawNext ==
    \/ StartNext
    \/ \E id \in SourceIds(sources) : RemoveSource(id)

LawSpec == LawInit /\ [][LawNext]_vars

(***************************************************************************)
(* C15: filter composition law.                                            *)
(***************************************************************************)
\* The elements a single filter step keeps whose function is the
\* conjunction (e, idx, list) => p(e, idx, list) && q(e, idx, list).
RECURSIVE BothKeep(_, _, _, _)
BothKeep(items, p, q, i) ==
    IF i > Len(items) THEN <<>>
    ELSE (IF /\ Truthy(Call(p, items[i], Num(i - 1), Arr(items)).val)
             /\ Truthy(Call(q, items[i], Num(i - 1), Arr(items)).val)
          THEN <<items[i]>> ELSE <<>>) \o BothKeep(items, p, q, i + 1)

\* The function returns for an element the same at every index of every
\* list: it looks at the element only.
ElementOnly(func, items) ==
    \A i \in 1..Len(items) : \A idx \in 0..Len(items) :
        /\ Call(func, items[i], Num(idx), Arr(items)) = Call(func, items[i], Num(0), Arr(<<>>))
        /\ Call(func, items[i], Num(idx), Arr(<<items[i]>>)) = Call(func, items[i], Num(0), Arr(<<>>))

\* The positions k of the active group where a filter step follows a
\* filter step, the first meeting an array, and both ran in this run.
FilterPairs(cont, steps) ==
    {k \in 1..(Len(steps) - 1) :
        /\ steps[k].type = "filter" /\ steps[k + 1].type = "filter"
        /\ Prefix(cont, steps, k - 1).status = "set"
        /\ IsArray(Prefix(cont, steps, k - 1).data)
        /\ Prefix(cont, steps, k + 1).status = "set"}

\* C15 as claimed: for every two functions p and q, a filter step with p
\* followed by a filter step with q leaves the array a single filter step
\* with p AND q leaves.
C15_FilterComposition ==
    [][Processed =>
        LET steps == ActiveSteps(filtersGroups', activeFilterGroup')
        IN  \A k \in FilterPairs(content', steps) :
                Prefix(content', steps, k + 1).data =
                    Arr(BothKeep(Prefix(content', steps, k - 1).data.items,
                                 steps[k].func, steps[k + 1].func, 1))]_vars

\* C15 amended: the same for every p and every q that looks at the element
\* only, not at the index or the list it is handed.
C15_FilterCompositionElementOnly ==
    [][Processed =>
        LET steps == ActiveSteps(filtersGroups', activeFilterGroup')
        IN  \A k \in FilterPairs(content', steps) :
                ElementOnly(steps[k + 1].func, Prefix(content', steps, k - 1).data.items) =>
                    Prefix(content', steps, k + 1).data =
                        Arr(BothKeep(Prefix(content', steps, k - 1).data.items,
                                     steps[k].func, steps[k + 1].func, 1))]_vars

\* A run in which p, looking at the index, and then q, looking at the
\* element, kept some and dropped some of three documents.
C15_Witness ==
    /\ run.status = "set" /\ run.ran = 2
    /\ LET steps == ActiveSteps(filtersGroups, activeFilterGroup)
       IN  /\ 1 \in FilterPairs(content, steps)
           /\ ElementOnly(steps[2].func, Seed(content).items)
           /\ ~ElementOnly(steps[1].func, Seed(content).items)
           /\ Len(content) = 3
           /\ viewer = Prefix(content, steps, 2).data
           /\ Len(Prefix(content, steps, 1).data.items) \in 1..2

(***************************************************************************)
(* Runs whose first step selects the first document, an object or an       *)
(* array, followed by up to MaxSteps steps of every kind.                  *)
(***************************************************************************)
KeyTexts == {<<"return 0;">>, <<"return 'a';">>}

KeyChoices == [type : Kinds, func : KeyTexts]

KeyGroupsOfLen(k) ==
    {<<[id |-> 30, type |-> "select", func |-> <<"return 0;">>]>>
        \o [i \in 1..k |-> [id |-> 30 + i, type |-> c[i].type, func |-> c[i].func]] :
        c \in [1..k -> KeyChoices]}

KeyGroups == UNION {KeyGroupsOfLen(k) : k \in 0..MaxSteps}

KeyRecords ==
    {[sources |-> src, filters |-> <<g>>, active |-> 0] :
        src \in RunSources \ {<<>>}, g \in KeyGroups}

KeyInit == Boot({<<rec>> : rec \in KeyRecords})

KeySpec == KeyInit /\ [][RunNext]_vars

(***************************************************************************)
(* C16: a select step whose function returns a key that the current        *)
(* non-array object does not have.                                         *)
(***************************************************************************)
\* The positions k of the steps where a select step runs on a non-array
\* object and its function returns a key the object does not have.
AbsentKeySteps(cont, steps) ==
    {k \in 1..Len(steps) :
        /\ steps[k].type = "select"
        /\ Prefix(cont, steps, k - 1).status = "set"
        /\ Prefix(cont, steps, k - 1).data.t = "object"
        /\ ~Call(steps[k].func, Undefined, Undefined, Undefined).thrown
        /\ LET key == Call(steps[k].func, Undefined, Undefined, Undefined).val
               d == Prefix(cont, steps, k - 1).data
           IN  key.t # "string" \/ \A i \in 1..Len(d.props) : d.props[i].k # key.s}

\* The select steps after position k.
SelectsAfter(steps, k) == {j \in (k + 1)..Len(steps) : steps[j].type = "select"}

\* C16 as claimed: the step leaves undefined, and undefined is what the
\* run hands the viewer, whatever steps follow.
C16_AbsentKeyShown ==
    [][Processed =>
        LET steps == ActiveSteps(filtersGroups', activeFilterGroup')
        IN  \A k \in AbsentKeySteps(content', steps) :
                /\ Prefix(content', steps, k).data = Undefined
                /\ run'.status = "set"
                /\ viewer' = Undefined]_vars

\* C16 amended: the step leaves undefined; followed by filter, map and
\* flatmap steps only, undefined is what the run hands the viewer;
\* followed by a select step, the run ends at the first of them and the
\* viewer is left as it was.
C16_AbsentKeyShownUnlessSelect ==
    [][Processed =>
        LET steps == ActiveSteps(filtersGroups', activeFilterGroup')
        IN  \A k \in AbsentKeySteps(content', steps) :
                /\ Prefix(content', steps, k) = [status |-> "set", data |-> Undefined, ran |-> k]
                /\ SelectsAfter(steps, k) = {} => (run'.status = "set" /\ viewer' = Undefined)
                /\ SelectsAfter(steps, k) # {} =>
                      /\ run'.status = "abort"
                      /\ \A j \in SelectsAfter(steps, k) : run'.ran < j
                      /\ run'.ran + 1 \in SelectsAfter(steps, k)
                      /\ viewer' = viewer]_vars

\* A run that showed undefined after a select of an absent key with a map
\* step behind it.
C16_Witness ==
    /\ run.status = "set" /\ run.ran = 3
    /\ viewer = Undefined
    /\ LET steps == ActiveSteps(filtersGroups, activeFilterGroup)
       IN  /\ 2 \in AbsentKeySteps(content, steps)
           /\ steps[3].type = "map"

(***************************************************************************)
(* C17: a filter step followed by a map step over an array leaves, in the  *)
(* order of the array, the map images of exactly the elements for which    *)
(* the filter function is truthy; over [{x:1},{x:2},{x:3}] with            *)
(* e.x > 1 and e.x * 10 the viewer shows [20, 30].                         *)
(***************************************************************************)
\* The elements, in order, for which p is truthy.
RECURSIVE Passing(_, _, _)
Passing(items, p, i) ==
    IF i > Len(items) THEN <<>>
    ELSE (IF Truthy(Call(p, items[i], Num(i - 1), Arr(items)).val) THEN <<items[i]>> ELSE <<>>)
            \o Passing(items, p, i + 1)

\* The images under q of the elements of a list.
Images(items, q) == [j \in 1..Len(items) |-> Call(q, items[j], Num(j - 1), Arr(items)).val]

\* The positions k where a map step follows a filter step that meets an
\* array, and both ran in this run.
FilterMapPairs(cont, steps) ==
    {k \in 1..(Len(steps) - 1) :
        /\ steps[k].type = "filter" /\ steps[k + 1].type = "map"
        /\ Prefix(cont, steps, k - 1).status = "set"
        /\ IsArray(Prefix(cont, steps, k - 1).data)
        /\ Prefix(cont, steps, k + 1).status = "set"}

X(n) == Obj(<<[k |-> "x", val |-> Num(n)]>>)

IsScenario17(cont, steps) ==
    /\ Seed(cont) = Arr(<<X(1), X(2), X(3)>>)
    /\ Len(steps) = 2
    /\ steps[1].type = "filter" /\ Code(steps[1].func.body) = <<"return e.x>1;">>
    /\ steps[2].type = "map" /\ Code(steps[2].func.body) = <<"return e.x*10;">>

C17_FilterThenMap ==
    [][Processed =>
        LET steps == ActiveSteps(filtersGroups', activeFilterGroup')
        IN  /\ \A k \in FilterMapPairs(content', steps) :
                  Prefix(content', steps, k + 1).data =
                      Arr(Images(Passing(Prefix(content', steps, k - 1).data.items,
                                         steps[k].func, 1), steps[k + 1].func))
            /\ IsScenario17(content', steps) => viewer' = Arr(<<Num(20), Num(30)>>)]_vars

C17_Witness ==
    /\ run.status = "set" /\ run.ran = 2
    /\ IsScenario17(content, ActiveSteps(filtersGroups, activeFilterGroup))
    /\ viewer = Arr(<<Num(20), Num(30)>>)

(***************************************************************************)
(* The handlers of the filter controls over several groups.                *)
(***************************************************************************)
FrameNext ==
    \/ Load
    \/ \E v \in 0..Len(filtersGroups) : SelectGroup(v)
    \/ FiltersReset
    \/ FiltersAdd
    \/ GroupAdd
    \/ \E id \in ShownIds : KindChange(id, "map")
    \/ \E id \in ShownIds : FilterRemove(id)

FrameSpec == FreshInit /\ [][FrameNext]_vars

(***************************************************************************)
(* C18: adding a step, removing a step, changing a step's kind and reset   *)
(* change the active group only: every other group keeps its steps, in     *)
(* order, with their ids, kinds and functions, and the active index stays. *)
(* Adding appends a select step with the body "return e;"; removing keeps  *)
(* the order of the steps that remain.                                     *)
(***************************************************************************)
\* The steps of one group as installed.
InstalledSteps(filters) ==
    [i \in 1..Len(filters) |->
        [id |-> filters[i].id, type |-> filters[i].type, func |-> filters[i].func]]

\* The steps of the group at the active index, none when there is no such
\* group.
ActiveInstalled(groups, active) == InstalledSteps(ActiveSteps(groups, active))

StepOps == {"addFilter", "removeFilter", "kindChange", "reset"}

C18_OnlyActiveGroupChanges ==
    [][run'.op \in StepOps =>
        LET old == ActiveInstalled(filtersGroups, activeFilterGroup)
            new == ActiveInstalled(filtersGroups', activeFilterGroup')
        IN  /\ activeFilterGroup' = activeFilterGroup
            /\ Len(filtersGroups') \in {Len(filtersGroups), activeFilterGroup + 1}
            /\ Len(filtersGroups') >= Len(filtersGroups)
            /\ \A g \in 1..Len(filtersGroups) :
                  g # activeFilterGroup + 1 =>
                      InstalledSteps(filtersGroups'[g]) = InstalledSteps(filtersGroups[g])
            /\ run'.op = "addFilter" =>
                  /\ Len(new) = Len(old) + 1
                  /\ SubSeq(new, 1, Len(old)) = old
                  /\ new[Len(new)].type = "select"
                  /\ getFunctionContent(new[Len(new)].func) = <<"return e;">>
                  /\ \A i \in 1..Len(old) : old[i].id # new[Len(new)].id
            /\ run'.op = "removeFilter" =>
                  \E id \in ShownIds : new = SelectSeq(old, LAMBDA st : st.id # id)
            /\ run'.op = "kindChange" =>
                  /\ Len(new) = Len(old)
                  /\ \A i \in 1..Len(old) : new[i].id = old[i].id /\ new[i].func = old[i].func
            /\ run'.op = "reset" => new = <<>>]_vars

\* A step was removed from the active group while the other group holds a
\* step.
C18_Witness ==
    /\ run.op = "removeFilter"
    /\ Len(filtersGroups) = 2
    /\ HasGroup(filtersGroups, activeFilterGroup)
    /\ \E g \in 1..2 : g # activeFilterGroup + 1 /\ Len(filtersGroups[g]) >= 1

(***************************************************************************)
(* The editor of a step typed into, between two texts that compile, so     *)
(* that an editor whose timer is not pending holds the text of its         *)
(* function; adding or removing a step redraws the list and leaves the     *)
(* timers of the editors it replaces to run out.                           *)
(***************************************************************************)
DebounceTexts == {<<"return 0;">>, <<"return e;">>}

DebounceNext ==
    \/ Load
    \/ FiltersAdd
    \/ Len(filtersGroups) < MaxEditGroups /\ GroupAdd
    \/ \E id \in ShownIds : FilterRemove(id)
    \/ \E i \in 1..ShownLen, text \in DebounceTexts : EditorChange(i, text)
    \/ \E g \in 1..Len(filtersGroups) : \E i \in 1..Len(filtersGroups[g]) : TimerFire(g, i)
    \/ \E k \in 1..Len(timers) : StaleTimerFire(k)

DebounceSpec == FreshInit /\ [][DebounceNext]_vars

(***************************************************************************)
(* C19: the change notifications of one editor are coalesced: a            *)
(* notification that arrives while the editor's timer is pending takes     *)
(* the place of that timer and compiles nothing; when the timer runs out   *)
(* there is one recompile, recompute and save, from the text the editor    *)
(* holds then, and no timer of that editor is left.                        *)
(***************************************************************************)
\* The editors, by group and position, whose text this step changes.
Notified ==
    {p \in (1..Len(filtersGroups)) \X (1..MaxFilters + 1) :
        /\ p[2] <= Len(filtersGroups[p[1]])
        /\ filtersGroups[p[1]][p[2]].editor # <<>>
        /\ Len(filtersGroups') = Len(filtersGroups)
        /\ Len(filtersGroups'[p[1]]) = Len(filtersGroups[p[1]])
        /\ filtersGroups'[p[1]][p[2]].editor # <<>>
        /\ filtersGroups'[p[1]][p[2]].editor[1].text # filtersGroups[p[1]][p[2]].editor[1].text}

\* The editors, by group and position, whose timer runs out in this step.
RunOut ==
    {p \in (1..Len(filtersGroups)) \X (1..MaxFilters + 1) :
        /\ p[2] <= Len(filtersGroups[p[1]])
        /\ filtersGroups[p[1]][p[2]].editor # <<>>
        /\ filtersGroups[p[1]][p[2]].editor[1].armed
        /\ Len(filtersGroups') = Len(filtersGroups)
        /\ Len(filtersGroups'[p[1]]) = Len(filtersGroups[p[1]])
        /\ filtersGroups'[p[1]][p[2]].editor # <<>>
        /\ ~filtersGroups'[p[1]][p[2]].editor[1].armed}

Armed(groups) == Len(ArmedOfAll(groups))

RecomputeChoices ==
    {[type |-> "select", func |-> <<"return 0;">>],
     [type |-> "map", func |-> <<"throw new Error('x');">>]}

RecomputeGroupsOfLen(base, k) ==
    {[i \in 1..k |-> [id |-> base + i, type |-> c[i].type, func |-> c[i].func]] :
        c \in [1..k -> RecomputeChoices]}

RecomputeGroups(base) == UNION {RecomputeGroupsOfLen(base, k) : k \in 0..MaxSteps}

RecomputeRecords ==
    {[sources |-> src, filters |-> <<g, h>>, active |-> a] :
        src \in RunSources, g \in RecomputeGroups(30), h \in RecomputeGroups(40),
        a \in {0, 1}}

RecomputeInit == Boot({<<rec>> : rec \in RecomputeRecords})

RecomputeNext ==
    \/ StartNext
    \/ \E id \in SourceIds(sources) : RemoveSource(id)
    \/ \E v \in 0..Len(filtersGroups) : SelectGroup(v)

RecomputeSpec == RecomputeInit /\ [][RecomputeNext]_vars

(***************************************************************************)
(* C20: what a recompute leaves on display, as a function of the content   *)
(* and of the steps of the active group.                                   *)
(***************************************************************************)
\* The outcome of a run, from the content and the steps alone.
Outcome(cont, steps) == Fold(Seed(cont), steps, 1)

\* What a recompute over this content and these steps leaves on display
\* when `before` was displayed.
ShownAfter(before, cont, steps) ==
    LET r == Outcome(cont, steps)
    IN  IF r.status = "set" THEN r.data ELSE before

\* C20, as claimed: whatever was displayed before, a recompute leaves on
\* display what the recompute over the same content and the same steps of
\* the active group leaves on a page that has displayed nothing yet, as
\* the first recompute after a load does.
C20_DisplayOfContentAndSteps ==
    [][Processed =>
        viewer' = ShownAfter(Unset, content',
                             ActiveSteps(filtersGroups', activeFilterGroup'))]_vars

\* C20, amended: the outcome of a recompute (the value, the abort at a
\* select step or the throw of a transform, and the number of steps run) is
\* that of the content and of the steps of the active group alone; a run
\* that reaches editor.set displays its value whatever was displayed
\* before, and a run that aborts or throws leaves what was displayed.
C20_OutcomeOfContentAndSteps ==
    [][Processed =>
        LET r == Outcome(content', ActiveSteps(filtersGroups', activeFilterGroup'))
        IN  /\ run'.status = r.status
            /\ run'.ran = r.ran
            /\ r.status = "set" => viewer' = r.data
            /\ r.status # "set" => viewer' = viewer]_vars

\* The second group is active and its run aborted or threw over content
\* that a removal left, with the result of an earlier run on display.
C20_Witness ==
    /\ run.op \in {"removeSource", "selectGroup"}
    /\ run.status \in {"abort", "throw"}
    /\ activeFilterGroup = 1
    /\ viewer # Unset
    /\ viewer # ShownAfter(Unset, content, ActiveSteps(filtersGroups, activeFilterGroup))

(***************************************************************************)
(* The delete button of the groups, on a fresh page and on the page of a   *)
(* saved record, among handlers that change the groups with and without    *)
(* saving them.                                                            *)
(***************************************************************************)
DeleteNext ==
    \/ StartNext
    \/ GroupDel
    \/ FiltersAdd
    \/ GroupAdd
    \/ \E id \in ShownIds : KindChange(id, "filter")
    \/ \E id \in SourceIds(sources) : RemoveSource(id)

DeleteSpec == Boot({<<>>, <<SavedRecord>>}) /\ [][DeleteNext]_vars

(***************************************************************************)
(* C21: the delete button of the groups removes nothing: the groups and    *)
(* their steps, the active index, the sources, the content and what is     *)
(* displayed stay as they are, and the record becomes that of this state.  *)
(***************************************************************************)
C21_GroupDelRemovesNothing ==
    [][run'.op = "delGroup" =>
        /\ UNCHANGED <<filtersGroups, activeFilterGroup, sources, content, viewer,
                       shown, timers, fetches>>
        /\ storage' = <<Record(sources, filtersGroups, activeFilterGroup)>>
        /\ run'.status = "none" /\ run'.saved]_vars

\* The button was pressed with two groups, a step and loaded content.
C21_Witness ==
    /\ run.op = "delGroup"
    /\ Len(filtersGroups) = 2
    /\ \E g \in 1..Len(filtersGroups) : filtersGroups[g] # <<>>
    /\ content # <<>>

(***************************************************************************)
(* Sources added and edited with every fetch resolving, in any order; a    *)
(* source is edited once its content has arrived.                          *)
(***************************************************************************)
StaleNext ==
    \/ Load
    \/ \E url \in Urls : AddSource(url)
    \/ \E f \in fetches : AddFetchDone(f, TRUE)
    \/ \E id \in ContentIds(content), url \in Urls : EditSource(id, url)
    \/ \E f \in fetches : EditFetchDone(f, TRUE)

StaleSpec == FreshInit /\ [][StaleNext]_vars

(***************************************************************************)
(* C22: once no fetch is in flight, the content item of every source holds *)
(* the document of the url the source has now.                             *)
(***************************************************************************)
C22_ContentOfCurrentUrl ==
    (phase = "ready" /\ fetches = {}) =>
        \A i \in 1..Len(sources), j \in 1..Len(content) :
            content[j].id = sources[i].id => content[j].data = Json(sources[i].url)

(***************************************************************************)
(* The editors and their timers again, with every timer that is set        *)
(* running out in the end (setTimeout, script.ts 31).                       *)
(***************************************************************************)
TimersRunOut ==
    /\ WF_vars(\E g \in 1..Len(filtersGroups) : \E i \in 1..Len(filtersGroups[g]) :
                    TimerFire(g, i))
    /\ WF_vars(\E k \in 1..Len(timers) : StaleTimerFire(k))

DebounceLiveSpec == FreshInit /\ [][DebounceNext]_vars /\ TimersRunOut

(***************************************************************************)
(* C23: an edit is not lost: when the editor of a step holds a text that   *)
(* compiles and its timer is pending, then in the end that text is the     *)
(* text of the step's function, or the step was removed, or the editor     *)
(* holds a later edit whose timer is pending.                              *)
(***************************************************************************)
\* The places, by group and position, of the step with this id.
PlacesOf(id) ==
    {p \in (1..Len(filtersGroups)) \X (1..MaxFilters + 1) :
        p[2] <= Len(filtersGroups[p[1]]) /\ filtersGroups[p[1]][p[2]].id = id}

\* The editor of the step has notified a change to this text and its timer
\* has not run out.
EditPending(id, text) ==
    \E p \in PlacesOf(id) :
        /\ filtersGroups[p[1]][p[2]].editor # <<>>
        /\ filtersGroups[p[1]][p[2]].editor[1].armed
        /\ filtersGroups[p[1]][p[2]].editor[1].text = text

EditInstalled(id, text) ==
    \E p \in PlacesOf(id) : filtersGroups[p[1]][p[2]].func = NewFunction(text)

C23_EditNotLost ==
    \A id \in 1..MaxFilters : \A text \in DebounceTexts :
        EditPending(id, text) ~>
            \/ EditInstalled(id, text)
            \/ PlacesOf(id) = {}
            \/ \E later \in DebounceTexts \ {text} : EditPending(id, later)

(***************************************************************************)
(* The editors of a saved record of two groups, a step each, and no        *)
(* source: the groups are switched and steps added and removed while       *)
(* timers are pending.                                                     *)
(***************************************************************************)
SwitchRecord == [SavedRecord EXCEPT !.sources = <<>>]

SwitchNext ==
    \/ StartNext
    \/ \E v \in 0..Len(filtersGroups) - 1 : SelectGroup(v)
    \/ FiltersAdd
    \/ \E id \in ShownIds : FilterRemove(id)
    \/ \E i \in 1..ShownLen : EditorChange(i, <<"return 0;">>)
    \/ \E g \in 1..Len(filtersGroups) : \E i \in 1..Len(filtersGroups[g]) : TimerFire(g, i)
    \/ \E k \in 1..Len(timers) : StaleTimerFire(k)

SwitchSpec == Boot({<<SwitchRecord>>}) /\ [][SwitchNext]_vars

(***************************************************************************)
(* C24: the function of a step is replaced only by a recompile, and by the *)
(* function compiled from the text that the editor of that same step       *)
(* holds, whichever editor's timer ran out.                                *)
(***************************************************************************)
StepIds == {SavedRecord.filters[g][1].id : g \in 1..2} \cup (1..MaxFilters)

\* The step with this id, in the given groups.
StepOf(groups, id) ==
    LET p == CHOOSE q \in (1..Len(groups)) \X (1..MaxFilters + 2) :
                q[2] <= Len(groups[q[1]]) /\ groups[q[1]][q[2]].id = id
    IN  groups[p[1]][p[2]]

HasStep(groups, id) ==
    \E g \in 1..Len(groups) : \E i \in 1..Len(groups[g]) : groups[g][i].id = id

C24_OwnEditorText ==
    [][\A id \in StepIds :
        (/\ HasStep(filtersGroups, id) /\ HasStep(filtersGroups', id)
         /\ StepOf(filtersGroups', id).func # StepOf(filtersGroups, id).func) =>
            /\ run'.op = "recompile"
            /\ StepOf(filtersGroups, id).editor # <<>>
            /\ StepOf(filtersGroups', id).func =
                    NewFunction(StepOf(filtersGroups, id).editor[1].text)]_vars

\* A recompile has run, and the timer of an editor of the group that is
\* not active has run out: its text is not that of its step's function.
C24_Witness ==
    /\ run.op = "recompile"
    /\ \E g \in 1..Len(filtersGroups) : \E i \in 1..Len(filtersGroups[g]) :
          /\ g # activeFilterGroup + 1
          /\ filtersGroups[g][i].editor # <<>>
          /\ ~filtersGroups[g][i].editor[1].armed
          /\ filtersGroups[g][i].editor[1].text # getFunctionContent(filtersGroups[g][i].func)
    /\ \E i \in 1..Len(ActiveSteps(filtersGroups, activeFilterGroup)) :
          /\ ActiveSteps(filtersGroups, activeFilterGroup)[i].id # SavedRecord.filters[2][1].id
          /\ ActiveSteps(filtersGroups, activeFilterGroup)[i].func.body = <<"return 0;">>

(***************************************************************************)
(* C25: after a handler whose recompute threw (recompile of edited text,   *)
(* add filter, add group, switch group, fetch completion, removal of a     *)
(* source), the record is the encoding of the sources, groups and active   *)
(* index in memory.                                                        *)
(***************************************************************************)
C25_RecordFollowsMemory ==
    [][(/\ run'.status = "throw"
        /\ run'.op \in {"recompile", "addFilter", "addGroup", "selectGroup",
                        "addFetchDone", "editFetchDone", "removeSource"}) =>
            storage' = <<Record(sources', filtersGroups', activeFilterGroup')>>]_vars

=============================================================================
